---- MODULE Spec2Model ----
(***************************************************************************)
(* State-machine model of the ParticleGrid engine of src/src/lib.rs: the   *)
(* constructor, the replacement and movement rules, the step scheduler,    *)
(* export_grid and the two table mutators.  Coordinates, type ids and      *)
(* table indices are 0-based as in the source; Vec<u8> tables are          *)
(* functions over 0..len-1, argument arrays are sequences (index idx+1).   *)
(* A Rust panic (wasm trap) is the flag `panicked`; a panicked engine      *)
(* accepts no further call.  The colour palette and the generator state    *)
(* are never read back by any operation and are not part of the state;     *)
(* every draw of the generator is a nondeterministic choice.               *)
(***************************************************************************)
EXTENDS Integers, Sequences, FiniteSets, TLC

VARIABLES
    size,          \* ParticleGrid.size
    num_types,     \* ParticleGrid.num_types
    density,       \* ParticleGrid.density, an exact fraction <<num, den>>
    radius,        \* ParticleGrid.radius
    type_grid,     \* ParticleGrid.type_grid[x][y]
    affinity,      \* ParticleGrid.affinity[t][u]
    copy_type,     \* ParticleGrid.copy_type
    replace_type,  \* ParticleGrid.replace_type
    pc,            \* position inside step(): "idle" | "loop" | "replace" | "move"
    updates,       \* step(): local `updates`
    iter,          \* step(): iterations of the update loop already consumed
    particles,     \* step(): local working list `particles`
    cur,           \* step(): the sampled coordinate (x, y) of this iteration
    panicked,      \* a panic was raised (index out of bounds, empty range, % 0)
    call,          \* the most recent public call: its name, arguments, result
    init_count,    \* occupied cells right after construction
    overwritten    \* update_copy_replace has replaced the rule tables

vars == <<size, num_types, density, radius, type_grid, affinity, copy_type,
          replace_type, pc, updates, iter, particles, cur, panicked, call,
          init_count, overwritten>>

\* ------------------------------------------------------------------ bounds

\* Largest number of particle types given to the constructor.
MaxTypes == 3

\* Largest movement radius given to the constructor.
MaxRadius == 1

\* Largest number of occupied cells drawn at construction when 0 < density < 1
\* (density 1 always fills the grid whatever this bound); the 5x5 grid holds
\* a single particle.
MaxOccupied == 2

\* Largest number of cells drawn at construction with a type other than 1.
MaxOther == 2

\* Movement radius of the wide engines, whose grids have WideRadius + 3 cells
\* a side: the scoring windows of the corner cells (0, 0) and (1, 1) then
\* hold (WideRadius + 1)^2 and (WideRadius + 2)^2 cells, and the product of
\* the two counts exceeds 1 / f32::EPSILON.
WideRadius == 53

\* ------------------------------------------------------------ integer casts

\* `v as u8` of a usize / i32.
as_u8(v) == v % 256

\* Mutant of as_i8: the value is stored without truncation.
as_i8_NoWrap(v) == v

\* `v as i8` of an i32: two's-complement truncation to 8 bits.
as_i8(v) == ((v + 128) % 256) - 128

Min(a, b) == IF a < b THEN a ELSE b

\* a.saturating_sub(b) on usize.
saturating_sub(a, b) == IF a > b THEN a - b ELSE 0

\* Option<Vec<i32>>
None == [is_some |-> FALSE, v |-> <<>>]
Some(arr) == [is_some |-> TRUE, v |-> arr]

\* ------------------------------------------------------------------- grid

Coords(sz) == 0 .. (sz - 1)

\* count_particles: cells with a non-zero type.
count_particles(g, sz) ==
    Cardinality({c \in Coords(sz) \X Coords(sz) : g[c[1]][c[2]] # 0})

\* The inclusive clamped range  v.saturating_sub(h) ..= (v + h).min(size - 1).
ClampedRange(v, h, sz) == saturating_sub(v, h) .. Min(v + h, sz - 1)

\* The cells a doubly nested  `for j in ..y.. { for i in ..x.. {` loop visits,
\* in visiting order (j outer, i inner), as a sequence of <<i, j>>.
ScanOrder(x, y, h, sz) ==
    LET xs == ClampedRange(x, h, sz)
        ys == ClampedRange(y, h, sz)
        w  == Cardinality(xs)
        x0 == saturating_sub(x, h)
        y0 == saturating_sub(y, h)
    IN  [k \in 1 .. (w * Cardinality(ys)) |->
            <<x0 + ((k - 1) % w), y0 + ((k - 1) \div w)>>]

\* ------------------------------------------------------- Replacement Rule

\* Lines 182-188: the second scan, cell by cell in loop order; a cell whose
\* type is rt is overwritten with ct.
RECURSIVE ReplaceScan(_, _, _, _, _)
ReplaceScan(g, cells, k, rt, ct) ==
    IF k > Len(cells) THEN g
    ELSE LET i == cells[k][1]
             j == cells[k][2]
             g2 == IF g[i][j] = rt THEN [g EXCEPT ![i][j] = ct] ELSE g
         IN  ReplaceScan(g2, cells, k + 1, rt, ct)

\* Mutant of has_copy_neighbor: the first scan is skipped.
has_copy_neighbor_Always(g, x, y, ct, sz) == TRUE

\* Lines 164-175: is there a cell of type ct in the clamped 3x3 window?
has_copy_neighbor(g, x, y, ct, sz) ==
    \E i \in ClampedRange(x, 1, sz), j \in ClampedRange(y, 1, sz) : g[i][j] = ct

\* try_replace_particle(x, y) on grid g with tables ctab / rtab.
\* Result: [panic, grid].  Indexing a table beyond its length panics.
try_replace_particle(g, ctab, rtab, x, y, sz) ==
    LET p_type == g[x][y] IN
    IF p_type = 0 THEN [panic |-> FALSE, grid |-> g]
    ELSE IF p_type \notin DOMAIN ctab \/ p_type \notin DOMAIN rtab
    THEN [panic |-> TRUE, grid |-> g]
    ELSE LET ct == ctab[p_type]
             rt == rtab[p_type]
         IN  IF ~has_copy_neighbor(g, x, y, ct, sz)
             THEN [panic |-> FALSE, grid |-> g]
             ELSE [panic |-> FALSE,
                   grid  |-> ReplaceScan(g, ScanOrder(x, y, 1, sz), 1, rt, ct)]

\* ---------------------------------------------------------- Movement Rule

\* Mutant of ScoreRow: the affinity value itself is clamped to -1 .. 1 and
\* added, so an affinity of 0 contributes nothing.
RECURSIVE ScoreRow_Sign(_, _, _, _, _, _, _)
ScoreRow_Sign(g, aff, p_type, xx, rx1, yy, acc) ==
    IF xx > rx1 \/ acc.panic THEN acc
    ELSE LET ct == g[xx][yy]
             oob == ct # 0 /\ (p_type \notin DOMAIN aff
                               \/ ct \notin DOMAIN aff[p_type])
             d  == IF ct = 0 \/ oob THEN 0
                   ELSE IF aff[p_type][ct] >= 1 THEN 1
                   ELSE IF aff[p_type][ct] <= -1 THEN -1 ELSE 0
         IN  ScoreRow_Sign(g, aff, p_type, xx + 1, rx1, yy,
                           [panic |-> oob, score |-> acc.score + d,
                            cell_count |-> acc.cell_count + 1])

\* Lines 214-222: the inner scoring loop, `for xx in rx0..=rx1` at row yy.
\* acc is [panic, score, cell_count]; reading the affinity matrix outside
\* its bounds panics.
RECURSIVE ScoreRow(_, _, _, _, _, _, _)
ScoreRow(g, aff, p_type, xx, rx1, yy, acc) ==
    IF xx > rx1 \/ acc.panic THEN acc
    ELSE LET ct == g[xx][yy]
             oob == ct # 0 /\ (p_type \notin DOMAIN aff
                               \/ ct \notin DOMAIN aff[p_type])
             d  == IF ct = 0 \/ oob THEN 0
                   ELSE IF aff[p_type][ct] = 1 THEN 1 ELSE -1
         IN  ScoreRow(g, aff, p_type, xx + 1, rx1, yy,
                      [panic |-> oob, score |-> acc.score + d,
                       cell_count |-> acc.cell_count + 1])

\* Lines 213-223: the outer scoring loop, `for yy in ry0..=ry1`.
RECURSIVE ScoreScan(_, _, _, _, _, _, _, _)
ScoreScan(g, aff, p_type, rx0, rx1, yy, ry1, acc) ==
    IF yy > ry1 \/ acc.panic THEN acc
    ELSE LET row == ScoreRow(g, aff, p_type, rx0, rx1, yy, acc)
         IN  ScoreScan(g, aff, p_type, rx0, rx1, yy + 1, ry1,
                       [panic |-> row.panic, score |-> row.score,
                        cell_count |-> row.cell_count])

\* Mutant of SkipCandidate: occupied cells are scored as candidates too.
SkipCandidate_Never(g, i, j) == FALSE

\* Is the candidate cell (i, j) skipped by line 199?  (occupied cells are)
SkipCandidate(g, i, j) == g[i][j] # 0

\* Lines 203-223: score and cell_count of the candidate (i, j) for a mover
\* of type p_type, over the window rx0 ..= rx1 by ry0 ..= ry1.
candidate_score(g, aff, p_type, i, j, r, sz) ==
    ScoreScan(g, aff, p_type,
              saturating_sub(i, r), Min(i + r, sz - 1),
              saturating_sub(j, r), Min(j + r, sz - 1),
              [panic |-> FALSE, score |-> 0, cell_count |-> 0])

\* 1 / f32::EPSILON (EPSILON is 2^-23).
EpsilonInv == 8388608

\* p > q for exact fractions <<num, den>> with den >= 1; the integer parts
\* are compared first so that no product leaves the 32-bit range.
FracGreater(p, q) ==
    LET fp == p[1] \div p[2]
        fq == q[1] \div q[2]
    IN  IF fp # fq THEN fp > fq
        ELSE (p[1] - fp * p[2]) * q[2] > (q[1] - fq * q[2]) * p[2]

\* Mutant of FracNear: every candidate that does not beat `best` is pushed.
FracNear_Always(p, q) == TRUE

\* |p - q| < f32::EPSILON for fractions of absolute value at most 1.
FracNear(p, q) ==
    LET d == p[1] * q[2] - q[1] * p[2]
        ad == IF d < 0 THEN -d ELSE d
    IN  ad <= (p[2] * q[2] - 1) \div EpsilonInv

\* Lines 197-233: the candidate loop.  `best` is the exact fraction
\* <<num, den>> whose f32 value the code keeps; `norm > best` compares the
\* fractions and `(norm - best).abs() < f32::EPSILON` their distance.  The
\* rounding of each quotient to f32 (relative error 2^-24) is not modelled:
\* for the windows explored it neither merges two distinct quotients nor
\* moves a distance across EPSILON.
RECURSIVE CandidateScan(_, _, _, _, _, _, _, _)
CandidateScan(g, aff, p_type, r, sz, cands, k, acc) ==
    IF k > Len(cands) \/ acc.panic THEN acc
    ELSE LET i == cands[k][1]
             j == cands[k][2]
         IN  IF SkipCandidate(g, i, j)
             THEN CandidateScan(g, aff, p_type, r, sz, cands, k + 1, acc)
             ELSE LET s == candidate_score(g, aff, p_type, i, j, r, sz)
                      den == IF s.cell_count > 1 THEN s.cell_count ELSE 1
                      norm == <<s.score, den>>
                      nxt == IF s.panic THEN [acc EXCEPT !.panic = TRUE]
                             ELSE IF FracGreater(norm, acc.best)
                             THEN [acc EXCEPT !.best = norm,
                                              !.tiebreak = << <<i, j>> >>]
                             ELSE IF FracNear(norm, acc.best)
                             THEN [acc EXCEPT !.tiebreak =
                                                Append(@, <<i, j>>)]
                             ELSE acc
                  IN  CandidateScan(g, aff, p_type, r, sz, cands, k + 1, nxt)

\* Mutant of score_within_radius: `best` starts at 0.0, so the source stays
\* in the tie-break list unless a candidate scores above 0.
score_within_radius_BestZero(g, aff, x, y, r, sz) ==
    LET acc == CandidateScan(g, aff, g[x][y], r, sz, ScanOrder(x, y, 1, sz), 1,
                             [panic |-> FALSE, best |-> <<0, 1>>,
                              tiebreak |-> << <<x, y>> >>])
    IN  [panic |-> acc.panic, tiebreak |-> acc.tiebreak]

\* score_within_radius(x, y): [panic, tiebreak], where tiebreak is the list
\* the final `choose` draws from (line 238); an empty list yields (x, y).
score_within_radius(g, aff, x, y, r, sz) ==
    LET acc == CandidateScan(g, aff, g[x][y], r, sz, ScanOrder(x, y, 1, sz), 1,
                             [panic |-> FALSE, best |-> <<-1000000, 1>>,
                              tiebreak |-> << <<x, y>> >>])
    IN  [panic |-> acc.panic,
         tiebreak |-> IF acc.tiebreak = <<>> THEN << <<x, y>> >>
                      ELSE acc.tiebreak]

\* Mutant of Relocate: the source cell is not cleared.
Relocate_NoClear(g, x, y, bx, by, p_type) ==
    [g EXCEPT ![bx][by] = p_type]

\* Lines 253-254: relocate the particle of type p_type from (x, y) to (bx, by).
Relocate(g, x, y, bx, by, p_type) ==
    [g EXCEPT ![bx][by] = p_type, ![x][y] = 0]

\* move_particle(x, y): the set of possible results [panic, grid, dest], one
\* per destination the generator can draw.
move_particle(g, aff, x, y, r, sz) ==
    LET p_type == g[x][y] IN
    IF p_type = 0 THEN {[panic |-> FALSE, grid |-> g, dest |-> <<x, y>>]}
    ELSE LET s == score_within_radius(g, aff, x, y, r, sz) IN
         IF s.panic THEN {[panic |-> TRUE, grid |-> g, dest |-> <<x, y>>]}
         ELSE {[panic |-> FALSE,
                grid  |-> IF s.tiebreak[n] = <<x, y>> THEN g
                          ELSE Relocate(g, x, y, s.tiebreak[n][1],
                                        s.tiebreak[n][2], p_type),
                dest  |-> s.tiebreak[n]] : n \in 1 .. Len(s.tiebreak)}

\* ------------------------------------------------------------- export_grid

\* export_grid: `for y in 0..size { for x in 0..size { data.push(
\* type_grid[x][y]) } }`, push by push.
RECURSIVE ExportScan(_, _, _, _, _)
ExportScan(g, sz, y, x, data) ==
    IF y >= sz THEN data
    ELSE IF x >= sz THEN ExportScan(g, sz, y + 1, 0, data)
    ELSE ExportScan(g, sz, y, x + 1, Append(data, g[x][y]))

\* Mutant of export_grid: x is the outer loop, y the inner one.
export_grid_XOuter(g, sz) ==
    [k \in 1 .. (sz * sz) |-> g[(k - 1) \div sz][(k - 1) % sz]]

export_grid(g, sz) == ExportScan(g, sz, 0, 0, <<>>)

\* ------------------------------------------------------------ construction

\* Lines 61-66 (and 366-371): row-major copy with a running index, each
\* element cast `as i8`.
RECURSIVE AffinityFill(_, _, _, _, _, _)
AffinityFill(aff, arr, nt, t, u, idx) ==
    IF t > nt THEN aff
    ELSE IF u > nt THEN AffinityFill(aff, arr, nt, t + 1, 0, idx)
    ELSE AffinityFill([aff EXCEPT ![t][u] = as_i8(arr[idx + 1])],
                      arr, nt, t, u + 1, idx + 1)

\* Mutant of ZeroAffinity: vec![vec![0i8; num_types]; num_types], with no
\* row and no column for the highest type.
ZeroAffinity_Short(nt) ==
    [t \in 0 .. (nt - 1) |-> [u \in 0 .. (nt - 1) |-> 0]]

\* vec![vec![0i8; num_types + 1]; num_types + 1]
ZeroAffinity(nt) == [t \in 0 .. nt |-> [u \in 0 .. nt |-> 0]]

\* Lines 59 and 364: is the supplied array long enough to be used?
affinity_accepts(len, nt) == len >= (nt + 1) * (nt + 1)

\* randomize_affinity: every entry an independent fair coin, 1 or -1.
randomize_affinity(nt) == [0 .. nt -> [0 .. nt -> {-1, 1}]]

\* Lines 57-74: the matrices construction can produce for argument a.
InitialAffinity(nt, a) ==
    IF a.is_some /\ affinity_accepts(Len(a.v), nt)
    THEN {AffinityFill(ZeroAffinity(nt), a.v, nt, 0, 0, 0)}
    ELSE randomize_affinity(nt)

\* Lines 79-84: the values copy_type[t] can take.  `choose` draws from the
\* filtered range; on an empty range the fallback (t % num_types) + 1 is used.
CopyChoices(nt, t) ==
    LET choices == {c \in 1 .. as_u8(nt) : c # as_u8(t)}
    IN  IF choices = {} THEN {(as_u8(t) % as_u8(nt)) + 1} ELSE choices

\* Mutant of ReplaceChoices: copy_type[t] is not excluded.
ReplaceChoices_NoCopyFilter(nt, t, ct) ==
    LET choices == {c \in 1 .. as_u8(nt) : c # as_u8(t)}
    IN  IF choices = {} THEN {IF nt >= 1 THEN 1 ELSE 0} ELSE choices

\* Lines 90-97: the values replace_type[t] can take given copy_type[t] = ct.
ReplaceChoices(nt, t, ct) ==
    LET choices == {c \in 1 .. as_u8(nt) : c # as_u8(t) /\ c # ct}
    IN  IF choices = {} THEN {IF nt >= 1 THEN 1 ELSE 0} ELSE choices

CopyTables(nt) ==
    {f \in [0 .. nt -> 1 .. (as_u8(nt) + 1)] :
        \A t \in 0 .. nt : f[t] \in CopyChoices(nt, t)}

ReplaceTables(nt, ctab) ==
    {f \in [0 .. nt -> 0 .. as_u8(nt)] :
        \A t \in 0 .. nt : f[t] \in ReplaceChoices(nt, t, ctab[t])}

\* Side of the wide grids.
WideSize == WideRadius + 3

\* The wide grids explored, all of one type: the particle at (0, 1) has the
\* empty neighbours (0, 0) and (1, 1) and the occupied neighbours (1, 0),
\* (0, 2) and (1, 2); n further particles fill rows 3 and 4 from the left
\* within columns 0 .. WideRadius (inside the scoring window of (0, 0)), and
\* m particles stand in column WideRadius + 1 (inside the window of (1, 1)
\* only).
WideGrids ==
    { [x \in Coords(WideSize) |-> [y \in Coords(WideSize) |->
          IF \/ <<x, y>> \in {<<0, 1>>, <<1, 0>>, <<0, 2>>, <<1, 2>>}
             \/ /\ y \in {3, 4} /\ x <= WideRadius
                /\ (y - 3) * (WideRadius + 1) + x < n
             \/ x = WideRadius + 1 /\ y < m
          THEN 1 ELSE 0]] :
      n \in {2 * WideRadius - 3}, m \in {3, 4} }

\* The grids of side sz with at most k particles, built from the cells
\* whose draw was below the density and the types drawn for them (used for
\* the 5x5 grids, where 0 < density < 1).
SparseGrids(sz, nt, k) ==
    LET draws == UNION {[1 .. n -> (Coords(sz) \X Coords(sz)) \X (1 .. as_u8(nt))] :
                           n \in 0 .. k}
    IN  { [x \in Coords(sz) |-> [y \in Coords(sz) |->
             LET hits == {i \in DOMAIN ps : ps[i][1] = <<x, y>>}
             IN  IF hits = {} THEN 0
                 ELSE ps[CHOOSE i \in hits : \A h \in hits : i <= h][2]]] :
          ps \in draws }

\* Lines 47-54: the grids construction can produce.  A draw is below the
\* density only if density > 0 and at or above it only if density < 1.
\* Partially filled grids are explored up to MaxOccupied particles (5x5
\* grids with at most one), and
\* of the wide grids the family WideGrids.
InitialGrids(sz, nt, d) ==
    LET opts == (IF d[1] < d[2] THEN {0} ELSE {})
                \cup (IF d[1] > 0 THEN 1 .. as_u8(nt) ELSE {})
        most == IF sz >= 5 THEN 1 ELSE MaxOccupied
        drawn == IF sz >= 5 THEN SparseGrids(sz, nt, most)
                 ELSE [Coords(sz) -> [Coords(sz) -> opts]]
    IN  IF sz = WideSize THEN WideGrids
        ELSE
        {g \in drawn :
            /\ \/ d[1] >= d[2]
               \/ count_particles(g, sz) <= most
            /\ Cardinality({c \in Coords(sz) \X Coords(sz) :
                               g[c[1]][c[2]] > 1}) <= MaxOther}

\* Construction panics when `num_types as u8` is 0: gen_range(1..=0) at
\* line 51 for an occupied draw, and in any case the eagerly evaluated
\* fallback `t as u8 % num_types as u8` at line 84 (remainder by zero).
new_panics(nt) == as_u8(nt) = 0

NoCall(op) == [op |-> op, aff |-> None, copy |-> <<>>, repl |-> <<>>,
               ret |-> <<>>]

\* ParticleGrid::new(size, num_types, density, radius, affinity_array)
new(sz, nt, d, r, a) ==
    /\ size = sz
    /\ num_types = nt
    /\ density = d
    /\ radius = r
    /\ pc = "idle"
    /\ updates = 0
    /\ iter = 0
    /\ particles = <<>>
    /\ cur = <<0, 0>>
    /\ call = [NoCall("new") EXCEPT !.aff = a]
    /\ overwritten = FALSE
    /\ IF new_panics(nt)
       THEN /\ panicked = TRUE
            /\ type_grid = <<>>
            /\ affinity = <<>>
            /\ copy_type = <<>>
            /\ replace_type = <<>>
            /\ init_count = 0
       ELSE /\ panicked = FALSE
            /\ type_grid \in InitialGrids(sz, nt, d)
            /\ affinity \in InitialAffinity(nt, a)
            /\ copy_type \in CopyTables(nt)
            /\ replace_type \in ReplaceTables(nt, copy_type)
            /\ init_count = count_particles(type_grid, sz)

\* ------------------------------------------------------------------ inputs

\* density as an exact fraction <<numerator, denominator>>
Densities == {<<0, 1>>, <<3, 4>>, <<1, 1>>}

\* i32 values given in affinity arrays, several outside the i8 range.
AffPattern == <<-1, 1, 0, 2, 257, -129, 200, 128>>

\* Affinity arrays for num_types = nt: one element too short, exactly long
\* enough, and one element longer with values that need truncation.
OnesArr(nt) == [k \in 1 .. ((nt + 1) * (nt + 1)) |-> 1]

AffArrays(nt) ==
    LET need == (nt + 1) * (nt + 1)
    IN  { [k \in 1 .. (need - 1) |-> 1],
          OnesArr(nt),
          [k \in 1 .. (need + 1) |-> AffPattern[((k - 1) % 8) + 1]] }

AffArgs(nt) == {None} \cup {Some(arr) : arr \in AffArrays(nt)}

\* Argument pairs <<copy_types, replace_types>> of update_copy_replace for
\* num_types = nt.  Short is one element too short (length nt); Zeros and
\* Ones have length nt + 1; Wide is longer and holds no type id.
ShortVec(nt) == [t \in 0 .. (nt - 1) |-> 1]
ZerosVec(nt) == [t \in 0 .. nt |-> 0]
OnesVec(nt) == [t \in 0 .. nt |-> 1]
WideVec(nt) == [t \in 0 .. (nt + 1) |-> 255]

TableArgs(nt) ==
    { <<ShortVec(nt), ZerosVec(nt)>>,
      <<OnesVec(nt), ShortVec(nt)>>,
      <<ZerosVec(nt), OnesVec(nt)>>,
      <<WideVec(nt), WideVec(nt)>> }

Sizes == 0 .. 5

UsableArg(nt, a) == a.is_some /\ affinity_accepts(Len(a.v), nt)

\* The constructor calls whose engines are then driven through every public
\* call: grids on which step() has work to do (size 3 to 5, the last with a
\* budget of three updates) with one or two types, and the smaller grids on
\* which step() returns at once.
InScope(sz, nt, d, r, a) ==
    \/ sz <= 2 /\ nt = 1 /\ r = 0 /\ (a = None \/ UsableArg(nt, a))
    \/ sz = 3 /\ nt = 1 /\ d # <<0, 1>> /\ a = Some(OnesArr(nt))
    \/ sz = 3 /\ nt = 2 /\ d # <<0, 1>> /\ a = Some(OnesArr(nt))
              /\ r = MaxRadius
    \/ sz = 4 /\ nt = 1 /\ d = <<3, 4>> /\ r = 1 /\ a = Some(OnesArr(nt))
    \/ sz = 5 /\ nt = 1 /\ d = <<3, 4>> /\ r = 0 /\ a = Some(OnesArr(nt))

Init ==
    \E sz \in Sizes, nt \in 1 .. 2, d \in Densities, r \in 0 .. MaxRadius :
        \E a \in AffArgs(nt) :
            /\ InScope(sz, nt, d, r, a)
            /\ new(sz, nt, d, r, a)

\* The constructor calls explored for construction itself: every num_types
\* up to MaxTypes on grids of size 0 and 1; the coin flips of a random
\* affinity matrix are enumerated for up to two types.
InScopeNew(sz, nt, d, r, a) ==
    /\ sz <= 1
    /\ \/ nt <= 1
       \/ nt = 2 /\ (UsableArg(nt, a) \/ (sz = 1 /\ r = 0 /\ d = <<1, 1>>))
       \/ nt >= 3 /\ a = Some(OnesArr(nt)) /\ sz = 0 /\ r = 0 /\ d = <<1, 1>>

InitNew ==
    \E sz \in Sizes, nt \in 0 .. MaxTypes, d \in Densities, r \in 0 .. MaxRadius :
        \E a \in AffArgs(nt) :
            /\ InScopeNew(sz, nt, d, r, a)
            /\ new(sz, nt, d, r, a)

\* Construction of the wide engines: one type, a density low enough for one
\* update per step, and a custom affinity matrix whose entry for the type
\* itself is not +1.
InitWide ==
    \E a \in AffArgs(1) :
        /\ UsableArg(1, a) /\ Len(a.v) > 4
        /\ new(WideSize, 1, <<1, 400>>, WideRadius, a)

\* -------------------------------------------------------------------- step

\* Mutant of updates_of: the coefficient is 0.5 instead of 0.2.
updates_of_Half(d, sz) == (5 * d[1] * sz * sz) \div (10 * d[2])

\* Line 260: (0.2 * density * total_cells).floor() as usize, on the exact
\* fraction; for the densities and sizes modelled the f32 product does not
\* round across an integer.
updates_of(d, sz) == (2 * d[1] * sz * sz) \div (10 * d[2])

\* Lines 269-275: the inner loop `for y in 0..size` at column x, from row y
\* on: the coordinates it pushes, in order.
RECURSIVE CollectColumn(_, _, _, _)
CollectColumn(g, sz, x, y) ==
    IF y >= sz THEN <<>>
    ELSE (IF g[x][y] # 0 THEN << <<x, y>> >> ELSE <<>>)
         \o CollectColumn(g, sz, x, y + 1)

\* Lines 267-276: the coordinates of the non-empty cells, x outer, y inner,
\* from column x on.
RECURSIVE CollectScan(_, _, _)
CollectScan(g, sz, x) ==
    IF x >= sz THEN <<>>
    ELSE CollectColumn(g, sz, x, 0) \o CollectScan(g, sz, x + 1)

collect_particles(g, sz) == CollectScan(g, sz, 0)

\* Vec::swap_remove(idx), idx 1-based here: the last element takes the place
\* of the removed one.
swap_remove(ps, idx) ==
    LET n == Len(ps)
    IN  [k \in 1 .. (n - 1) |-> IF k = idx THEN ps[n] ELSE ps[k]]

\* Lines 262-264 and 278-280: does step() return before the update loop?
step_returns_early(u, ps) == u = 0 \/ ps = <<>>

Callable == pc = "idle" /\ ~panicked

\* step(), lines 259-280, when it returns without entering the loop.
StepNoop ==
    /\ Callable
    /\ step_returns_early(updates_of(density, size),
                          collect_particles(type_grid, size))
    /\ call' = NoCall("step")
    /\ UNCHANGED <<size, num_types, density, radius, type_grid, affinity,
                   copy_type, replace_type, pc, updates, iter, particles, cur,
                   panicked, init_count, overwritten>>

\* step(), lines 259-280, when it enters the update loop.
StepBegin ==
    /\ Callable
    /\ ~step_returns_early(updates_of(density, size),
                           collect_particles(type_grid, size))
    /\ updates' = updates_of(density, size)
    /\ particles' = collect_particles(type_grid, size)
    /\ iter' = 0
    /\ pc' = "loop"
    /\ call' = NoCall("step")
    /\ UNCHANGED <<size, num_types, density, radius, type_grid, affinity,
                   copy_type, replace_type, cur, panicked, init_count,
                   overwritten>>

\* Lines 283-286 and 299: the loop ends (budget used up or list empty) and
\* step() returns; its locals go out of scope.
StepReturn ==
    /\ pc = "loop" /\ ~panicked
    /\ iter >= updates \/ particles = <<>>
    /\ pc' = "idle"
    /\ updates' = 0
    /\ iter' = 0
    /\ particles' = <<>>
    /\ cur' = <<0, 0>>
    /\ UNCHANGED <<size, num_types, density, radius, type_grid, affinity,
                   copy_type, replace_type, panicked, call, init_count,
                   overwritten>>

\* Mutant of StepRemove: a removal does not use up an iteration.
StepRemove_FreeBudget ==
    /\ pc = "loop" /\ ~panicked
    /\ iter < updates /\ particles # <<>>
    /\ \E idx \in 1 .. Len(particles) :
          /\ type_grid[particles[idx][1]][particles[idx][2]] = 0
          /\ particles' = swap_remove(particles, idx)
    /\ UNCHANGED <<size, num_types, density, radius, type_grid, affinity,
                   copy_type, replace_type, pc, updates, iter, cur, panicked,
                   call, init_count, overwritten>>

\* Lines 287-294: the sampled coordinate is empty; its entry is removed.
StepRemove ==
    /\ pc = "loop" /\ ~panicked
    /\ iter < updates /\ particles # <<>>
    /\ \E idx \in 1 .. Len(particles) :
          /\ type_grid[particles[idx][1]][particles[idx][2]] = 0
          /\ particles' = swap_remove(particles, idx)
    /\ iter' = iter + 1
    /\ UNCHANGED <<size, num_types, density, radius, type_grid, affinity,
                   copy_type, replace_type, pc, updates, cur, panicked, call,
                   init_count, overwritten>>

\* Lines 287-291: the sampled coordinate is occupied; the rules follow.
StepSample ==
    /\ pc = "loop" /\ ~panicked
    /\ iter < updates /\ particles # <<>>
    /\ \E idx \in 1 .. Len(particles) :
          /\ type_grid[particles[idx][1]][particles[idx][2]] # 0
          /\ cur' = particles[idx]
    /\ pc' = "replace"
    /\ UNCHANGED <<size, num_types, density, radius, type_grid, affinity,
                   copy_type, replace_type, updates, iter, particles, panicked,
                   call, init_count, overwritten>>

\* Mutant of StepReplace: the rule works on a copy of the grid, which is
\* then dropped.
StepReplace_OnCopy ==
    /\ pc = "replace" /\ ~panicked
    /\ LET res == try_replace_particle(type_grid, copy_type, replace_type,
                                       cur[1], cur[2], size)
       IN  /\ panicked' = res.panic
           /\ type_grid' = type_grid
    /\ pc' = "move"
    /\ UNCHANGED <<size, num_types, density, radius, affinity, copy_type,
                   replace_type, updates, iter, particles, cur, call,
                   init_count, overwritten>>

\* Line 296: self.try_replace_particle(x, y)
StepReplace ==
    /\ pc = "replace" /\ ~panicked
    /\ LET res == try_replace_particle(type_grid, copy_type, replace_type,
                                       cur[1], cur[2], size)
       IN  /\ panicked' = res.panic
           /\ type_grid' = res.grid
    /\ pc' = "move"
    /\ UNCHANGED <<size, num_types, density, radius, affinity, copy_type,
                   replace_type, updates, iter, particles, cur, call,
                   init_count, overwritten>>

\* Mutant of StepMove: the working list follows the particle, its entry
\* being rewritten to the destination.
StepMove_Tracks ==
    /\ pc = "move" /\ ~panicked
    /\ \E res \in move_particle(type_grid, affinity, cur[1], cur[2], radius,
                                size) :
          /\ panicked' = res.panic
          /\ type_grid' = res.grid
          /\ particles' = [k \in DOMAIN particles |->
                              IF particles[k] = cur THEN res.dest
                              ELSE particles[k]]
    /\ iter' = iter + 1
    /\ pc' = "loop"
    /\ UNCHANGED <<size, num_types, density, radius, affinity, copy_type,
                   replace_type, updates, cur, call, init_count,
                   overwritten>>

\* Line 297: self.move_particle(x, y), which ends the iteration.
StepMove ==
    /\ pc = "move" /\ ~panicked
    /\ \E res \in move_particle(type_grid, affinity, cur[1], cur[2], radius,
                                size) :
          /\ panicked' = res.panic
          /\ type_grid' = res.grid
    /\ iter' = iter + 1
    /\ pc' = "loop"
    /\ UNCHANGED <<size, num_types, density, radius, affinity, copy_type,
                   replace_type, updates, particles, cur, call, init_count,
                   overwritten>>

\* ------------------------------------------------------ other public calls

\* export_grid()
ExportGrid ==
    /\ Callable
    /\ call' = [NoCall("export_grid") EXCEPT
                   !.ret = export_grid(type_grid, size)]
    /\ UNCHANGED <<size, num_types, density, radius, type_grid, affinity,
                   copy_type, replace_type, pc, updates, iter, particles, cur,
                   panicked, init_count, overwritten>>

\* update_affinity(new_affinity)
update_affinity(aff, new_affinity, nt) ==
    IF affinity_accepts(Len(new_affinity), nt)
    THEN AffinityFill(aff, new_affinity, nt, 0, 0, 0)
    ELSE aff

UpdateAffinity ==
    /\ Callable
    /\ \E arr \in AffArrays(num_types) :
          /\ affinity' = update_affinity(affinity, arr, num_types)
          /\ call' = [NoCall("update_affinity") EXCEPT !.aff = Some(arr)]
    /\ UNCHANGED <<size, num_types, density, radius, type_grid, copy_type,
                   replace_type, pc, updates, iter, particles, cur, panicked,
                   init_count, overwritten>>

VecLen(v) == Cardinality(DOMAIN v)

\* Mutant of copy_replace_accepts: a length equal to num_types is accepted.
copy_replace_accepts_AtLeast(clen, rlen, nt) == clen >= nt /\ rlen >= nt

\* Mutant of copy_replace_accepts: one long enough sequence suffices.
copy_replace_accepts_Either(clen, rlen, nt) == clen > nt \/ rlen > nt

\* Line 377: the guard of update_copy_replace.
copy_replace_accepts(clen, rlen, nt) == clen > nt /\ rlen > nt

\* Mutant of UpdateCopyReplace: accepted tables also redefine num_types as
\* one less than the copy table's length.
UpdateCopyReplace_Resize ==
    /\ Callable
    /\ \E arg \in TableArgs(num_types) :
          /\ IF copy_replace_accepts(VecLen(arg[1]), VecLen(arg[2]), num_types)
             THEN /\ copy_type' = arg[1]
                  /\ replace_type' = arg[2]
                  /\ overwritten' = TRUE
                  /\ num_types' = VecLen(arg[1]) - 1
             ELSE UNCHANGED <<copy_type, replace_type, overwritten, num_types>>
          /\ call' = [NoCall("update_copy_replace") EXCEPT
                         !.copy = arg[1], !.repl = arg[2]]
    /\ UNCHANGED <<size, density, radius, type_grid, affinity, pc,
                   updates, iter, particles, cur, panicked, init_count>>

\* update_copy_replace(copy_types, replace_types)
UpdateCopyReplace ==
    /\ Callable
    /\ \E arg \in TableArgs(num_types) :
          /\ IF copy_replace_accepts(VecLen(arg[1]), VecLen(arg[2]), num_types)
             THEN /\ copy_type' = arg[1]
                  /\ replace_type' = arg[2]
                  /\ overwritten' = TRUE
             ELSE UNCHANGED <<copy_type, replace_type, overwritten>>
          /\ call' = [NoCall("update_copy_replace") EXCEPT
                         !.copy = arg[1], !.repl = arg[2]]
    /\ UNCHANGED <<size, num_types, density, radius, type_grid, affinity, pc,
                   updates, iter, particles, cur, panicked, init_count>>

\* The getters size(), num_types(), density(), radius(): each returns its
\* field (density as its fraction).
Getter ==
    /\ Callable
    /\ \E g \in {"size", "num_types", "density", "radius"} :
          call' = [NoCall(g) EXCEPT
                      !.ret = CASE g = "size" -> <<size>>
                                [] g = "num_types" -> <<num_types>>
                                [] g = "density" -> density
                                [] OTHER -> <<radius>>]
    /\ UNCHANGED <<size, num_types, density, radius, type_grid, affinity,
                   copy_type, replace_type, pc, updates, iter, particles, cur,
                   panicked, init_count, overwritten>>

\* debug_info(): the formatted fields and count_particles(), here as the
\* tuple of the numbers the string is formatted from.
DebugInfo ==
    /\ Callable
    /\ call' = [NoCall("debug_info") EXCEPT
                   !.ret = <<size, size, num_types, density[1], density[2],
                             radius, count_particles(type_grid, size)>>]
    /\ UNCHANGED <<size, num_types, density, radius, type_grid, affinity,
                   copy_type, replace_type, pc, updates, iter, particles, cur,
                   panicked, init_count, overwritten>>

Next ==
    \/ StepNoop
    \/ StepBegin
    \/ StepReturn
    \/ StepRemove
    \/ StepSample
    \/ StepReplace
    \/ StepMove
    \/ ExportGrid
    \/ UpdateAffinity
    \/ UpdateCopyReplace
    \/ Getter
    \/ DebugInfo

Spec == Init /\ [][Next]_vars

\* step() as the first call on a freshly constructed engine.
FirstStepBegin == call.op = "new" /\ StepBegin

FirstStepNoop == call.op = "new" /\ StepNoop

NextMove ==
    \/ FirstStepNoop
    \/ FirstStepBegin
    \/ StepReturn
    \/ StepRemove
    \/ StepSample
    \/ StepReplace
    \/ StepMove

\* The engines of Init and the wide engines.
InitMove == Init \/ InitWide

\* One step() on every engine of Init and on the wide engines.
SpecMove == InitMove /\ [][NextMove]_vars

\* The steps of a running step() up to the call of move_particle.
StepRuns == StepReturn \/ StepRemove \/ StepSample \/ StepReplace

\* The one-type engines of Init, those of side 4 or more with at most two
\* particles.
InitFair == Init /\ num_types = 1 /\ (size < 4 \/ init_count <= 2)

\* One step() on every one-type engine of Init, run to its return: a call,
\* once made, is executed statement after statement.  StepMove is enabled
\* exactly when pc = "move" and no panic has occurred, and every StepMove
\* step leaves pc = "move", so WF_vars(StepMove) is written as its meaning:
\* the run does not stay at pc = "move" for ever.
SpecFair ==
    /\ InitFair
    /\ [][NextMove]_vars
    /\ WF_vars(StepRuns)
    /\ []<>(pc # "move" \/ panicked)

\* Construction over the wider range of num_types, followed by the calls
\* that read or overwrite what construction built.
NextNew ==
    \/ ExportGrid
    \/ UpdateAffinity

SpecNew == InitNew /\ [][NextNew]_vars

\* ================================================================== claims

Cells == Coords(size) \X Coords(size)

Occupied(g) == {c \in Cells : g[c[1]][c[2]] # 0}

AllOccupied(g) == size >= 1 /\ \A c \in Cells : g[c[1]][c[2]] # 0

\* C1: with the rule tables as built at construction (num_types >= 1), the
\* number of occupied cells at any point of any sequence of step() calls
\* equals the number right after construction.
C1_OccupiedCountPreserved ==
    (~panicked /\ ~overwritten) =>
        Cardinality(Occupied(type_grid)) = init_count

\* C1 witness: inside a step with construction's tables, after at least one
\* iteration, a coordinate of the snapshot list has been vacated by a move.
C1_Witness ==
    /\ ~panicked /\ ~overwritten
    /\ pc = "loop" /\ iter >= 1 /\ init_count >= 2
    /\ \E k \in 1 .. Len(particles) :
          type_grid[particles[k][1]][particles[k][2]] = 0

\* C2 as stated: after construction with num_types >= 2 (2 included), for
\* every type t in 1..num_types: copy_target[t] # t, replace_target[t] # t
\* and replace_target[t] # copy_target[t].
C2_Original ==
    (~panicked /\ ~overwritten /\ num_types >= 2) =>
        \A t \in 1 .. num_types :
            /\ copy_type[t] # t
            /\ replace_type[t] # t
            /\ replace_type[t] # copy_type[t]

\* C2 amended: after construction, copy_target[t] # t for every type when
\* num_types >= 2; replace_target[t] differs from t and from copy_target[t]
\* when num_types >= 3; with exactly two types no candidate is left and
\* replace_target[t] is the fallback 1 for both types.
C2_Amended ==
    (~panicked /\ ~overwritten) =>
        /\ num_types >= 2 => \A t \in 1 .. num_types : copy_type[t] # t
        /\ num_types >= 3 =>
              \A t \in 1 .. num_types :
                  replace_type[t] # t /\ replace_type[t] # copy_type[t]
        /\ num_types = 2 => \A t \in 1 .. num_types : replace_type[t] = 1

\* C2 witness: an engine built with three types.
C2_Witness ==
    /\ ~panicked /\ ~overwritten /\ call.op = "new" /\ num_types = 3
    /\ copy_type[1] = 3 /\ replace_type[1] = 2

\* C3 as stated: construction never fails, whatever the arguments
\* (num_types = 0 included), and with num_types = 0 both fallbacks yield 0.
C3_ConstructionNeverFails ==
    call.op = "new" =>
        /\ ~panicked
        /\ num_types = 0 => (copy_type[0] = 0 /\ replace_type[0] = 0)

\* C4: in every state reached from construction (num_types >= 1) through
\* step, update_affinity and update_copy_replace, no panic has been raised
\* and every grid cell holds a type id in 0..num_types.
C4_TypeIdsInRange ==
    /\ ~panicked
    /\ \A c \in Cells : type_grid[c[1]][c[2]] \in 0 .. num_types

\* C4 witness: a step iteration has run on a non-empty grid with tables
\* installed by update_copy_replace whose entries are no type id.
C4_Witness ==
    /\ ~panicked /\ overwritten
    /\ \A t \in DOMAIN copy_type : copy_type[t] > num_types
    /\ pc = "loop" /\ iter >= 1
    /\ Occupied(type_grid) # {}

\* C5: a step() called when floor(0.2 * density * size^2) = 0 or the grid is
\* empty returns at once and leaves the grid and all tables unchanged; on the
\* engine size=2, num_types=1, density=0 export_grid returns four zero bytes.
C5_StepNoopWhenNoBudget ==
    /\ [][ (Callable /\ call'.op = "step"
            /\ (2 * density[1] * size * size < 10 * density[2]
                \/ Occupied(type_grid) = {}))
           => (/\ pc' = "idle"
               /\ UNCHANGED <<type_grid, affinity, copy_type,
                              replace_type>>) ]_vars
    /\ [](( size = 2 /\ num_types = 1 /\ density = <<0, 1>>
            /\ call.op = "export_grid") => call.ret = <<0, 0, 0, 0>>)

\* C5 witness: step() has returned on a grid that holds particles but whose
\* update budget is zero.
C5_Witness ==
    /\ ~panicked /\ call.op = "step" /\ pc = "idle"
    /\ Occupied(type_grid) # {}
    /\ 2 * density[1] * size * size < 10 * density[2]
    /\ density[1] > 0

\* C6: update_affinity with an array shorter than (num_types+1)^2 leaves the
\* matrix unchanged; update_copy_replace with either sequence of length
\* <= num_types leaves both tables unchanged; neither call panics or changes
\* the grid.
C6_ShortUpdatesIgnored ==
    [][ /\ (call'.op = "update_affinity"
            /\ Len(call'.aff.v) < (num_types + 1) * (num_types + 1))
           => affinity' = affinity
        /\ (call'.op = "update_copy_replace"
            /\ (VecLen(call'.copy) <= num_types
                \/ VecLen(call'.repl) <= num_types))
           => (copy_type' = copy_type /\ replace_type' = replace_type)
        /\ call'.op \in {"update_affinity", "update_copy_replace"}
           => (type_grid' = type_grid /\ panicked' = panicked) ]_vars

\* C6 witness: update_copy_replace was called with a long enough copy
\* sequence and a too short replace sequence, on tables that differ from
\* the sequence it was given.
C6_Witness ==
    /\ call.op = "update_copy_replace"
    /\ VecLen(call.copy) > num_types /\ VecLen(call.repl) <= num_types
    /\ copy_type # call.copy
    /\ num_types = 2

\* C7: export_grid returns size^2 bytes, the byte at index y*size + x being
\* the type at (x, y), and changes nothing of the engine.
C7_ExportGridLayout ==
    /\ [](call.op = "export_grid" =>
            /\ Len(call.ret) = size * size
            /\ \A c \in Cells :
                  call.ret[c[2] * size + c[1] + 1] = type_grid[c[1]][c[2]])
    /\ [][ call'.op = "export_grid" =>
             UNCHANGED <<size, num_types, density, radius, type_grid,
                         affinity, copy_type, replace_type, panicked>> ]_vars

\* C7 witness: export_grid has returned for a 3x3 grid that is not symmetric
\* under exchange of x and y.
C7_Witness ==
    /\ call.op = "export_grid" /\ size = 3
    /\ type_grid[0][1] # type_grid[1][0]
    /\ type_grid[2][0] # 0

\* C8: when every cell is occupied, a Movement Rule invocation leaves the
\* grid as it is (the source is selected), and whatever the engine does next
\* every cell is still occupied.
C8_FullGridStaysFull ==
    [][ AllOccupied(type_grid) =>
          /\ AllOccupied(type_grid')
          /\ pc = "move" => type_grid' = type_grid ]_vars

\* C8 witness: on a full 3x3 grid with two types, an iteration of the update
\* loop (Replacement then Movement) has completed.
C8_Witness ==
    /\ ~panicked /\ size = 3 /\ num_types = 2
    /\ AllOccupied(type_grid)
    /\ pc = "loop" /\ iter >= 1
    /\ \E c \in Cells : type_grid[c[1]][c[2]] = 1

\* C9: after a constructor call without a usable affinity array every entry
\* is -1 or +1; after a constructor or update_affinity call with an array of
\* length >= (num_types+1)^2, entry [t][u] is the value at row-major index
\* t*(num_types+1)+u wrapped modulo 2^8 into -128..127.
C9_AffinityEntries ==
    LET need == (num_types + 1) * (num_types + 1)
        arr == call.aff.v
        usable == call.aff.is_some /\ Len(arr) >= need
    IN  /\ (~panicked /\ call.op = "new" /\ ~usable) =>
              \A t, u \in 0 .. num_types : affinity[t][u] \in {-1, 1}
        /\ (~panicked /\ call.op \in {"new", "update_affinity"} /\ usable) =>
              \A t, u \in 0 .. num_types :
                  /\ affinity[t][u] \in -128 .. 127
                  /\ (affinity[t][u] - arr[t * (num_types + 1) + u + 1])
                        % 256 = 0

\* C9 witness: update_affinity was given a long enough array for two types
\* that holds values outside the signed 8-bit range.
C9_Witness ==
    /\ ~panicked /\ call.op = "update_affinity" /\ num_types = 2
    /\ Len(call.aff.v) > 9
    /\ call.aff.v[5] = 257 /\ affinity[1][1] = 1
    /\ call.aff.v[6] = -129 /\ affinity[1][2] = 127

\* C10 as stated: in every reachable state, tables installed by
\* update_copy_replace included, one application of the Replacement Rule
\* changes neither the number of occupied cells nor any cell outside the
\* clamped 3x3 window of the cell it is applied to.
C10_ReplacementKeepsCount ==
    [][ pc = "replace" =>
          /\ Cardinality(Occupied(type_grid'))
                = Cardinality(Occupied(type_grid))
          /\ \A c \in Cells :
                (c[1] \notin ClampedRange(cur[1], 1, size)
                 \/ c[2] \notin ClampedRange(cur[2], 1, size))
                => type_grid'[c[1]][c[2]] = type_grid[c[1]][c[2]] ]_vars

\* The empty cells of the clamped 3x3 neighbourhood of c in grid g.
EmptyNeighbours(g, c) ==
    {e \in ClampedRange(c[1], 1, size) \X ClampedRange(c[2], 1, size) :
        g[e[1]][e[2]] = 0}

\* The destinations the Movement Rule can select at the sampled coordinate.
MoveDests ==
    {res.dest : res \in move_particle(type_grid, affinity, cur[1], cur[2],
                                      radius, size)}

MoveAtOccupied == pc = "move" /\ ~panicked /\ type_grid[cur[1]][cur[2]] # 0

\* C11 as stated: whenever the Movement Rule is applied to an occupied cell,
\* also one with an empty cell in its clamped 3x3 neighbourhood, the source
\* cell is among the destinations the rule can select.
C11_SourceAlwaysCandidate ==
    MoveAtOccupied => cur \in MoveDests

\* C11 amended: the source cell is a destination the Movement Rule can select
\* exactly when no cell of the clamped 3x3 neighbourhood is empty; when one
\* is, every selectable destination is an empty neighbour and the rule
\* vacates the source.
C11_Amended ==
    /\ [](MoveAtOccupied =>
            /\ cur \in MoveDests <=> EmptyNeighbours(type_grid, cur) = {}
            /\ EmptyNeighbours(type_grid, cur) # {} =>
                  MoveDests \subseteq EmptyNeighbours(type_grid, cur))
    /\ [][ (MoveAtOccupied /\ EmptyNeighbours(type_grid, cur) # {})
           => type_grid'[cur[1]][cur[2]] = 0 ]_vars

\* C11 witness: the first iteration of a step has applied the Movement Rule
\* to a particle that had room to move, and its source cell is now empty.
C11_Witness ==
    /\ ~panicked /\ ~overwritten /\ size = 4
    /\ pc = "loop" /\ iter = 1
    /\ type_grid[cur[1]][cur[2]] = 0
    /\ particles = << cur >>

\* The grid is a size x size array.
GridShape(g, sz) ==
    /\ DOMAIN g = Coords(sz)
    /\ \A x \in Coords(sz) : DOMAIN g[x] = Coords(sz)

\* C12: every public operation (step, export_grid, debug_info,
\* update_affinity, update_copy_replace, the getters) leaves size, num_types,
\* density and radius as they were and the grid size x size; step() changes
\* neither the affinity matrix nor the copy/replace tables; update_affinity
\* and update_copy_replace change no grid cell.
C12_ConfigurationAndFrames ==
    /\ [](GridShape(type_grid, size))
    /\ [][ /\ UNCHANGED <<size, num_types, density, radius>>
           /\ GridShape(type_grid', size')
           /\ (pc # "idle" \/ call'.op = "step")
                 => UNCHANGED <<affinity, copy_type, replace_type>>
           /\ call'.op \in {"update_affinity", "update_copy_replace"}
                 => type_grid' = type_grid ]_vars

\* debug_info() reports the construction values after the tables were
\* replaced by a longer pair and a step() has removed a particle.
C12_Witness ==
    /\ pc = "idle" /\ ~panicked
    /\ call.op = "debug_info"
    /\ call.ret = <<3, 3, 2, 3, 4, MaxRadius, 1>>
    /\ VecLen(copy_type) > num_types + 1
    /\ init_count = 2

\* The clamped 3x3 window around c.
Window3(c) == ClampedRange(c[1], 1, size) \X ClampedRange(c[2], 1, size)

\* C13: the Replacement Rule at an occupied cell of type p, with
\* ct = copy_type[p] and rt = replace_type[p]: with no cell of type ct in the
\* clamped 3x3 window (centre included) the grid is unchanged; otherwise
\* exactly the window cells whose type before the rule is rt become ct and
\* every other cell keeps its type.  At an empty cell it is a no-op.  Stated
\* for the rule applied at every cell of every reachable grid, and for the
\* rule application inside step().
C13_ReplacementRule ==
    /\ [](~panicked =>
            \A c \in Cells :
               LET p   == type_grid[c[1]][c[2]]
                   res == try_replace_particle(type_grid, copy_type,
                                               replace_type, c[1], c[2], size)
               IN  /\ ~res.panic
                   /\ p = 0 => res.grid = type_grid
                   /\ p # 0 =>
                        LET ct == copy_type[p]
                            rt == replace_type[p]
                        IN  IF \A w \in Window3(c) : type_grid[w[1]][w[2]] # ct
                            THEN res.grid = type_grid
                            ELSE \A d \in Cells :
                                   res.grid[d[1]][d[2]] =
                                      IF d \in Window3(c)
                                         /\ type_grid[d[1]][d[2]] = rt
                                      THEN ct
                                      ELSE type_grid[d[1]][d[2]])
    /\ [][ (pc = "replace" /\ ~panicked) =>
             LET p  == type_grid[cur[1]][cur[2]]
                 ct == copy_type[p]
                 rt == replace_type[p]
             IN  /\ p # 0
                 /\ IF \A w \in Window3(cur) : type_grid[w[1]][w[2]] # ct
                    THEN type_grid' = type_grid
                    ELSE \A d \in Cells :
                           type_grid'[d[1]][d[2]] =
                              IF d \in Window3(cur) /\ type_grid[d[1]][d[2]] = rt
                              THEN ct
                              ELSE type_grid[d[1]][d[2]] ]_vars

\* C13 witness: the rule has just been applied at an occupied cell whose copy
\* target is 0 and whose replace target is its own type: the cell itself was
\* relabelled (it is empty now, and was occupied when sampled) while a cell of
\* the replace target outside the window kept its type.
C13_Witness ==
    /\ pc = "move" /\ ~panicked /\ overwritten
    /\ num_types = 1 /\ size = 3
    /\ copy_type[1] = 0 /\ replace_type[1] = 1
    /\ type_grid[cur[1]][cur[2]] = 0
    /\ \E d \in Cells \ Window3(cur) : type_grid[d[1]][d[2]] = 1

\* The square of half-width radius centred at c, clamped to the grid.
WindowR(c) ==
    {w \in Cells : /\ w[1] - c[1] <= radius /\ c[1] - w[1] <= radius
                   /\ w[2] - c[2] <= radius /\ c[2] - w[2] <= radius}

\* Number of occupied window cells the type T has affinity +1 with, minus
\* the number of the other occupied window cells.
LikeScore(g, T, c) ==
    Cardinality({w \in WindowR(c) :
                    g[w[1]][w[2]] # 0 /\ affinity[T][g[w[1]][w[2]]] = 1})
    - Cardinality({w \in WindowR(c) :
                    g[w[1]][w[2]] # 0 /\ affinity[T][g[w[1]][w[2]]] # 1})

\* The empty neighbours of c, each with its score and its window's cell
\* count: <<cell, score, cell_count>>.
ScoredNeighbours(g, c) ==
    {<<e, LikeScore(g, g[c[1]][c[2]], e), Cardinality(WindowR(e))>> :
        e \in EmptyNeighbours(g, c)}

\* C14 as stated: the Movement Rule at an occupied cell of type T either
\* leaves the grid unchanged, when no cell of the clamped 3x3 neighbourhood
\* is empty, or moves the particle to an empty neighbour whose normalized
\* score is >= that of every other empty neighbour: the destination then
\* holds T, the source 0, and every other cell is unchanged.
C14_MaximalDestination ==
    [][ MoveAtOccupied =>
          LET T  == type_grid[cur[1]][cur[2]]
              NS == ScoredNeighbours(type_grid, cur)
              Best == {n \in NS : \A m \in NS : n[2] * m[3] >= m[2] * n[3]}
          IN  IF NS = {} THEN type_grid' = type_grid
              ELSE \E n \in Best :
                     type_grid' = [type_grid EXCEPT ![n[1][1]][n[1][2]] = T,
                                                    ![cur[1]][cur[2]] = 0] ]_vars

\* C14 amended: as C14, with a destination whose normalized score is less
\* than f32::EPSILON below that of every other empty neighbour (the list
\* the destination is drawn from admits a later candidate whose score is
\* within EPSILON of the best so far).
C14_Amended ==
    [][ MoveAtOccupied =>
          LET T  == type_grid[cur[1]][cur[2]]
              NS == ScoredNeighbours(type_grid, cur)
              Near == {n \in NS : \A m \in NS :
                          m[2] * n[3] - n[2] * m[3]
                             <= (m[3] * n[3] - 1) \div EpsilonInv}
          IN  IF NS = {} THEN type_grid' = type_grid
              ELSE \E n \in Near :
                     type_grid' = [type_grid EXCEPT ![n[1][1]][n[1][2]] = T,
                                                    ![cur[1]][cur[2]] = 0] ]_vars

\* C14 witness: on a wide grid the particle of (0, 1) has moved to (1, 1),
\* whose score -111/3025 is below the -107/2916 of (0, 0) by less than
\* EPSILON.
C14_Witness ==
    /\ size = WideSize /\ ~panicked
    /\ pc = "loop" /\ iter = 1
    /\ cur = <<0, 1>>
    /\ type_grid[0][1] = 0 /\ type_grid[1][1] = 1 /\ type_grid[0][0] = 0
    /\ LikeScore(type_grid, 1, <<1, 1>>) * (WideRadius + 1) * (WideRadius + 1)
         < LikeScore(type_grid, 1, <<0, 0>>) * (WideRadius + 2) * (WideRadius + 2)

\* C15: for a mover of type T and an empty candidate e of its neighbourhood,
\* cell_count is the number of cells of the square of half-width radius
\* around e clamped to the grid, and score is the number of occupied window
\* cells C with affinity[T][type(C)] = +1 minus the number of all other
\* occupied window cells (the mover's own cell included when it lies in the
\* window); with radius 0 the score is 0.  Stated, whenever the Movement
\* Rule is about to run, for every occupied cell of the grid.
C15_NormalizedScore ==
    (~panicked /\ pc = "move") =>
       \A c \in Occupied(type_grid) :
          \A e \in EmptyNeighbours(type_grid, c) :
             LET T == type_grid[c[1]][c[2]]
                 s == candidate_score(type_grid, affinity, T, e[1], e[2],
                                      radius, size)
             IN  /\ ~s.panic
                 /\ s.cell_count = Cardinality(WindowR(e))
                 /\ s.score = LikeScore(type_grid, T, e)
                 /\ radius = 0 => (s.score = 0 /\ s.cell_count = 1)

\* C15 witness: the Movement Rule is about to score, with radius 1 and a
\* custom matrix whose entry for the mover's own type is 2, an empty
\* candidate on the grid's edge whose window holds the mover and
\* another particle: score -2 over 4 or 6 cells.
C15_Witness ==
    /\ MoveAtOccupied /\ radius = 1 /\ size = 3
    /\ affinity[type_grid[cur[1]][cur[2]]][type_grid[cur[1]][cur[2]]] = 2
    /\ \E e \in EmptyNeighbours(type_grid, cur) :
          /\ Cardinality(WindowR(e)) < 9
          /\ cur \in WindowR(e)
          /\ LikeScore(type_grid, type_grid[cur[1]][cur[2]], e) = -2

\* The coordinates held by the working list.
Listed(ps) == {ps[k] : k \in DOMAIN ps}

\* C16: step() returns after at most updates = floor(0.2 * density * size^2)
\* loop iterations.  An iteration that samples an empty coordinate removes
\* exactly that entry from the working list (whose entries are distinct, so
\* the coordinate cannot be sampled again), applies no rule, leaves the grid
\* unchanged and uses up one iteration; one that samples an occupied
\* coordinate applies the rules, leaves the list unchanged and uses up one
\* iteration; with the list empty or the budget used up the loop ends.
C16_StepLoop ==
    /\ [](pc # "idle" =>
            /\ iter <= updates
            /\ updates = (density[1] * size * size) \div (5 * density[2])
            /\ \A a, b \in DOMAIN particles :
                  a # b => particles[a] # particles[b])
    /\ [][ (pc = "loop" /\ ~panicked) =>
             \/ /\ pc' = "idle"
                /\ iter >= updates \/ particles = <<>>
                /\ type_grid' = type_grid
             \/ /\ pc' = "loop" /\ iter < updates
                /\ iter' = iter + 1
                /\ type_grid' = type_grid
                /\ \E idx \in DOMAIN particles :
                      /\ type_grid[particles[idx][1]][particles[idx][2]] = 0
                      /\ Len(particles') = Len(particles) - 1
                      /\ Listed(particles') = Listed(particles) \ {particles[idx]}
             \/ /\ pc' = "replace" /\ iter < updates
                /\ iter' = iter
                /\ cur' \in Listed(particles)
                /\ type_grid[cur'[1]][cur'[2]] # 0
                /\ particles' = particles
                /\ type_grid' = type_grid ]_vars
    /\ [][ (pc = "replace" /\ ~panicked) =>
             pc' = "move" /\ iter' = iter /\ particles' = particles ]_vars
    /\ [][ (pc = "move" /\ ~panicked) =>
             pc' = "loop" /\ iter' = iter + 1 /\ particles' = particles ]_vars
    /\ (pc # "idle") ~> (pc = "idle")

\* C16 witness: on a 5x5 grid with a budget of three, the one particle was
\* moved in the first iteration and its entry removed in the second; the
\* list is empty with one iteration of the budget left.
C16_Witness ==
    /\ pc = "loop" /\ ~panicked
    /\ particles = <<>>
    /\ iter = 2 /\ updates = 3
    /\ Cardinality(Occupied(type_grid)) = 1

\* C17: at a sampled occupied coordinate the Replacement Rule runs first and
\* leaves in the cell its copy target, if the cell's type is its own replace
\* target and the window holds the copy target, and its type otherwise; the
\* Movement Rule then runs at the same coordinate on that grid: it does
\* nothing if the cell is now empty, and otherwise scores and relocates the
\* type the cell holds now.
C17_ReplacementThenMovement ==
    /\ [][ (pc = "loop" /\ pc' # "loop" /\ pc' # "idle") => pc' = "replace" ]_vars
    /\ [][ (pc = "replace" /\ ~panicked) =>
             LET p  == type_grid[cur[1]][cur[2]]
                 ct == copy_type[p]
                 rt == replace_type[p]
                 hit == \E w \in Window3(cur) : type_grid[w[1]][w[2]] = ct
             IN  /\ pc' = "move" /\ cur' = cur
                 /\ type_grid'[cur[1]][cur[2]] =
                       IF hit /\ rt = p THEN ct ELSE p ]_vars
    /\ [][ (pc = "move" /\ ~panicked) =>
             LET T  == type_grid[cur[1]][cur[2]]
                 NS == ScoredNeighbours(type_grid, cur)
                 Near == {n \in NS : \A m \in NS :
                             m[2] * n[3] - n[2] * m[3]
                                <= (m[3] * n[3] - 1) \div EpsilonInv}
             IN  /\ pc' = "loop"
                 /\ IF T = 0 \/ NS = {} THEN type_grid' = type_grid
                    ELSE \E n \in Near :
                           /\ type_grid'[n[1][1]][n[1][2]] = T
                           /\ type_grid'[cur[1]][cur[2]] = 0
                           /\ \A d \in Cells \ {n[1], cur} :
                                 type_grid'[d[1]][d[2]] = type_grid[d[1]][d[2]]
           ]_vars

\* C17 witness: the only particle of the grid was sampled, the Replacement
\* Rule relabelled it to its copy target 0, and the Movement Rule, finding
\* the cell empty, did nothing: the grid is empty after one iteration.
C17_Witness ==
    /\ pc = "loop" /\ ~panicked /\ iter = 1
    /\ particles = << cur >>
    /\ init_count = 1
    /\ Occupied(type_grid) = {}

\* C18: the working list of a step() holds, when the step begins, exactly the
\* coordinates occupied then, and is never extended while the step runs; the
\* rules are applied only at a coordinate of the list.  So a cell that is
\* not in the list (it was empty when the step began, or its entry has been
\* removed) is not sampled in this step, whatever particle has moved into
\* it meanwhile.
C18_SnapshotOnly ==
    /\ [][ (pc = "idle" /\ pc' = "loop") =>
             /\ Listed(particles') = Occupied(type_grid)
             /\ type_grid' = type_grid ]_vars
    /\ [][ (pc # "idle" /\ pc' # "idle") =>
             /\ Listed(particles') \subseteq Listed(particles)
             /\ \A c \in Cells :
                   (c \notin Listed(particles) /\ type_grid'[c[1]][c[2]] # 0)
                      => (cur' # c \/ pc' \notin {"replace", "move"}) ]_vars
    /\ [](pc \in {"replace", "move"} => cur \in Listed(particles))
    /\ [][ (pc # "idle" /\ type_grid' # type_grid) =>
             pc \in {"replace", "move"} ]_vars

\* C18 witness: in the second iteration of a step on a 4x4 grid a listed
\* coordinate has been sampled while the grid holds a particle at a
\* coordinate that is not in the list: it moved there in the first
\* iteration.
C18_Witness ==
    /\ pc = "replace" /\ ~panicked
    /\ size = 4 /\ iter = 1 /\ Len(particles) = 2
    /\ \E c \in Occupied(type_grid) : c \notin Listed(particles)

\* Both rule tables are longer than num_types and hold only 0 .. num_types.
TablesInRange ==
    /\ VecLen(copy_type) > num_types /\ VecLen(replace_type) > num_types
    /\ \A t \in DOMAIN copy_type : copy_type[t] \in 0 .. num_types
    /\ \A t \in DOMAIN replace_type : replace_type[t] \in 0 .. num_types

\* C19: with both rule tables longer than num_types and all their entries
\* in 0 .. num_types, every part of a step() leaves every grid cell in
\* 0 .. num_types and indexes neither table nor the affinity matrix outside
\* its bounds (no panic), on every grid and with every radius explored,
\* corner and edge windows included.
C19_InRangeTablesAreSafe ==
    [][ (TablesInRange /\ ~panicked /\ (pc # "idle" \/ call'.op = "step")) =>
          /\ ~panicked'
          /\ \A c \in Cells : type_grid'[c[1]][c[2]] \in 0 .. num_types ]_vars

\* C19 witness: with in-range tables installed by update_copy_replace and a
\* radius of at least 1, an iteration of step() has applied both rules at a
\* corner of the grid and the particle has moved.
C19_Witness ==
    /\ pc = "loop" /\ ~panicked /\ iter >= 1
    /\ overwritten /\ TablesInRange
    /\ radius >= 1 /\ size >= 3
    /\ cur \in {<<0, 0>>, <<size - 1, size - 1>>}
    /\ cur \in Listed(particles)
    /\ type_grid[cur[1]][cur[2]] = 0
    /\ Cardinality(Occupied(type_grid)) = init_count

====
